---------------------------- MODULE Spec2Model ----------------------------
(***************************************************************************)
(* Model of Envoy's LogicalDnsCluster                                      *)
(* (source/common/upstream/logical_dns_cluster.cc).                        *)
(*                                                                         *)
(* One control (main) thread owns the cluster: the constructor,            *)
(* startPreInit(), the refresh timer callback, the DNS completion callback *)
(* and the destructor run on it, one at a time.  Each worker thread has a  *)
(* dispatcher queue of posted closures (FIFO), a thread-local             *)
(* PerThreadCurrentHostData slot and may call                              *)
(* LogicalHost::createConnection() once the host has been published to it. *)
(***************************************************************************)
EXTENDS Integers, Sequences, FiniteSets, TLC

(* ------------------------------ bounds -------------------------------- *)

\* Number of resolve cycles explored (caps update_attempt).
MaxCycles == 3
\* Longest address list the resolver hands to the callback.
MaxListLen == 2
\* Most closures waiting in one worker's dispatcher queue.
MaxQueue == 2

\* Worker threads registered with the thread-local facility.
Workers == {"w1", "w2"}

\* Addresses the resolver may return (port 0: the resolver knows no port).
ResolvedPool ==
    { [version |-> "v4", ip |-> "10.0.0.5", port |-> 0],
      [version |-> "v6", ip |-> "::6", port |-> 0] }

\* Endpoint ports of the configurations explored.
Ports == {443}

\* Counts of locality_lb_endpoints / lb_endpoints of the configurations explored.
EndpointCounts == {0, 1, 2}

(* ------------------------------ values -------------------------------- *)

\* A null Address::InstanceConstSharedPtr.
Null == [version |-> "null", ip |-> "", port |-> 0]

\* A null LogicalHostSharedPtr.
NoHost == [id |-> 0, address |-> Null, health_check_address |-> Null]

\* dns_url_ before the constructor has set it.
NoUrl == <<>>

\* What a read through a dangling pointer may yield.
Garbage == [version |-> "??", ip |-> "??", port |-> -1]

RECURSIVE SeqsUpTo(_, _)
SeqsUpTo(S, n) ==
    IF n = 0 THEN {<<>>}
    ELSE LET shorter == SeqsUpTo(S, n - 1)
         IN  shorter \cup { Append(s, x) : s \in {t \in shorter : Len(t) = n - 1}, x \in S }

\* The (ordered, possibly empty) lists a resolve may complete with.
AddressLists == SeqsUpTo(ResolvedPool, MaxListLen)

\* The load assignments explored: the shape, and the socket address of the endpoint.
LoadAssignments ==
    [ localities    : EndpointCounts,   \* endpoints().size()
      lb_endpoints  : EndpointCounts,   \* endpoints()[0].lb_endpoints().size()
      resolver_name : {"", "custom"},
      address       : {"svc.local"},
      port_value    : Ports ]

(* --------------------------- pure helpers ----------------------------- *)

\* fmt::format("tcp://{}:{}", address, port)
FormatTcpUrl(address, port) == <<"tcp://", address, ":", port>>

\* Network::Utility::hostFromTcpUrl / portFromTcpUrl
hostFromTcpUrl(url) == url[2]
portFromTcpUrl(url) == url[4]

\* Network::Utility::getAddressWithPort(address, port)
getAddressWithPort(address, port) == [address EXCEPT !.port = port]

\* Network::Utility::getIpv4AnyAddress() / getIpv6AnyAddress()
getIpv4AnyAddress == [version |-> "v4", ip |-> "0.0.0.0", port |-> 0]
getIpv6AnyAddress == [version |-> "v6", ip |-> "::", port |-> 0]

\* The closures a worker's dispatcher runs.
AddressClosure(new_address) == [type |-> "address", new_address |-> new_address]
HostSetUpdate == [type |-> "hosts"]

\* f with x appended to every worker's queue.
PostAll(q, x) == [w \in Workers |-> Append(q[w], x)]

(* ------------------------------ state --------------------------------- *)

VARIABLES
    load_assignment_,           \* cluster.load_assignment(), or the translated cluster.hosts()
    phase,                      \* "config" | "failed" | "constructed" | "running" | "destroyed"
    error,                      \* the EnvoyException thrown by the constructor, or ""
    dns_url_,                   \* NoUrl until constructed
    active_dns_query_,          \* TRUE: the handle is non-null
    resolver_pending,           \* callbacks the resolver still owes (in-flight queries)
    timer_armed,                \* resolve_timer_ enabled
    update_attempt,             \* info_->stats().update_attempt_
    update_success,             \* info_->stats().update_success_
    logical_host_,              \* NoHost or the LogicalHost
    current_resolved_address_,  \* Null or the stored address
    initialization_started_,    \* ClusterImplBase: onPreInitComplete() already ran
    queue,                      \* per worker: posted closures not yet run
    cache,                      \* per worker: PerThreadCurrentHostData.current_resolved_address_
    host_visible,               \* per worker: the host set holding the LogicalHost reached it
    conn,                       \* the latest createConnection(): its thread and its outcome
    last_front,                 \* address_list.front() of the latest callback; Null: the list was empty
    hist                        \* observation counters (no effect on behaviour)

vars == << load_assignment_, phase, error, dns_url_, active_dns_query_, resolver_pending, timer_armed,
           update_attempt, update_success, logical_host_, current_resolved_address_,
           initialization_started_, queue, cache, host_visible, conn, last_front, hist >>

\* Outcomes of createConnection() recorded in conn, besides the address connected to.
NoConn == [version |-> "none", ip |-> "", port |-> 0]
AssertFailed == [version |-> "ASSERT(data.current_resolved_address_)", ip |-> "", port |-> 0]
\* With ASSERT compiled out, the null address is dereferenced on the way to the socket.
NullDeref == [version |-> "null address dereferenced", ip |-> "", port |-> 0]

\* What createConnection() does with the address v read from the calling thread's slot:
\* the outcomes of an empty slot in a debug and in a release build, else a connection to v.
ConnectOutcomes(v) == IF v = Null THEN {AssertFailed, NullDeref} ELSE {v}

Init ==
    /\ load_assignment_ \in LoadAssignments
    /\ phase = "config"
    /\ error = ""
    /\ dns_url_ = NoUrl
    /\ active_dns_query_ = FALSE
    /\ resolver_pending = 0
    /\ timer_armed = FALSE
    /\ update_attempt = 0
    /\ update_success = 0
    /\ logical_host_ = NoHost
    /\ current_resolved_address_ = Null
    /\ initialization_started_ = FALSE
    /\ queue = [w \in Workers |-> <<>>]
    /\ cache = [w \in Workers |-> Null]
    /\ host_visible = [w \in Workers |-> FALSE]
    /\ conn = [thread |-> "none", address |-> NoConn]
    /\ last_front = Null
    /\ hist = [ init_signals   |-> 0,      \* times "initialization complete" was signalled
                host_creations |-> 0,      \* LogicalHost objects constructed
                registrations  |-> 0,      \* registerHostForPriority + updateClusterPrioritySet
                broadcasts     |-> 0,      \* runOnAllThreads calls
                stored         |-> {},     \* every value ever assigned to current_resolved_address_
                history        |-> <<>>,   \* the same values, in the order they were assigned
                changed_at     |-> 0,      \* the completion (by update_success) that assigned the latest
                trace          |-> <<>>,   \* the steps of the latest completion callback, in order
                writes         |-> [w \in Workers |-> 0],   \* cache writes per worker
                use_after_free |-> FALSE ] \* some closure or call ran against the destroyed cluster

(* ---------------------------- constructor ----------------------------- *)

\* Mutant: the resolver-name check is missing.
ConfigError_NoResolverCheck(c, has_load_assignment) ==
    IF c.localities # 1 \/ c.lb_endpoints # 1
    THEN IF has_load_assignment
         THEN "LOGICAL_DNS clusters must have a single locality_lb_endpoint and a single lb_endpoint"
         ELSE "LOGICAL_DNS clusters must have a single host"
    ELSE ""

\* The exception the constructor throws for load assignment c, or "" when it throws none.
ConfigError(c, has_load_assignment) ==
    IF c.localities # 1 \/ c.lb_endpoints # 1
    THEN IF has_load_assignment
         THEN "LOGICAL_DNS clusters must have a single locality_lb_endpoint and a single lb_endpoint"
         ELSE "LOGICAL_DNS clusters must have a single host"
    ELSE IF c.resolver_name # ""
    THEN "LOGICAL_DNS clusters must NOT have a custom resolver name set"
    ELSE ""

Constructor(has_load_assignment) ==
    /\ phase = "config"
    /\ error' = ConfigError(load_assignment_, has_load_assignment)
    /\ IF error' # ""
       THEN /\ phase' = "failed"
            /\ UNCHANGED dns_url_
       ELSE /\ phase' = "constructed"
            /\ dns_url_' = FormatTcpUrl(load_assignment_.address, load_assignment_.port_value)
    /\ UNCHANGED << load_assignment_, active_dns_query_, resolver_pending, timer_armed, update_attempt,
                    update_success, logical_host_, current_resolved_address_,
                    initialization_started_, queue, cache, host_visible, conn,
                    last_front, hist >>

(* ---------------------------- startResolve ---------------------------- *)

\* Issues one asynchronous resolve; the callback runs later (Complete).
startResolve ==
    /\ update_attempt' = update_attempt + 1
    /\ resolver_pending' = resolver_pending + 1
    /\ active_dns_query_' = TRUE

\* ClusterImplBase::initialize() calls startPreInit() once.
startPreInit ==
    /\ phase = "constructed"
    /\ update_attempt < MaxCycles
    /\ phase' = "running"
    /\ startResolve
    /\ UNCHANGED << load_assignment_, error, dns_url_, timer_armed, update_success, logical_host_,
                    current_resolved_address_, initialization_started_, queue, cache,
                    host_visible, conn, last_front, hist >>

\* Mutant: a periodic timer, still armed after it fired.
TimerFire_Periodic ==
    /\ timer_armed
    /\ update_attempt < MaxCycles
    /\ startResolve
    /\ UNCHANGED << load_assignment_, phase, error, dns_url_, timer_armed, update_success,
                    logical_host_, current_resolved_address_, initialization_started_,
                    queue, cache, host_visible, conn, last_front, hist >>

\* The resolve_timer_ callback: [this]() -> void { startResolve(); }.  The timer is one-shot.
TimerFire ==
    /\ timer_armed
    /\ update_attempt < MaxCycles
    /\ timer_armed' = FALSE
    /\ startResolve
    /\ UNCHANGED << load_assignment_, phase, error, dns_url_, update_success, logical_host_,
                    current_resolved_address_, initialization_started_, queue, cache,
                    host_visible, conn, last_front, hist >>


(* ------------------------ completion callback ------------------------- *)

\* The part of the state the completion callback reads and writes.
CallbackState ==
    [ active_dns_query_         |-> active_dns_query_,
      update_success            |-> update_success,
      logical_host_             |-> logical_host_,
      current_resolved_address_ |-> current_resolved_address_,
      initialization_started_   |-> initialization_started_,
      timer_armed               |-> timer_armed,
      queue                     |-> queue,
      hist                      |-> hist ]

\* active_dns_query_ = nullptr; update_success_.inc();
ClearQuery(s) ==
    [s EXCEPT !.active_dns_query_ = FALSE,
              !.update_success = @ + 1,
              !.hist.trace = <<"clear_query", "count_success">>]

\* The placeholder address of a new LogicalHost: the switch on the first entry's IP version.
AnyAddressFor(front) ==
    CASE front.version = "v4" -> getIpv4AnyAddress
      [] front.version = "v6" -> getIpv6AnyAddress

\* The priority set's member-update callback, held by the cluster manager once the
\* cluster is initialized: it posts the changed host set to every worker.
PriorityUpdateCb(s) ==
    IF s.initialization_started_
    THEN [s EXCEPT !.queue = PostAll(@, HostSetUpdate)]
    ELSE s

\* Mutant: the if (!logical_host_) guard is missing.
CreateLogicalHost_Unguarded(s, front) ==
    PriorityUpdateCb(
      [s EXCEPT !.logical_host_ =
                    [id |-> s.hist.host_creations + 1,
                     address |-> AnyAddressFor(front),
                     health_check_address |-> AnyAddressFor(front)],
                !.hist.host_creations = @ + 1,
                !.hist.registrations = @ + 1,
                !.hist.trace = @ \o <<"create_host", "register_host">>])

\* Mutant: a host is created only when the first entry is an IPv4 address.
CreateLogicalHost_V4Only(s, front) ==
    IF s.logical_host_ = NoHost /\ front.version = "v4"
    THEN PriorityUpdateCb(
           [s EXCEPT !.logical_host_ =
                         [id |-> s.hist.host_creations + 1,
                          address |-> AnyAddressFor(front),
                          health_check_address |-> AnyAddressFor(front)],
                     !.hist.host_creations = @ + 1,
                     !.hist.registrations = @ + 1,
                     !.hist.trace = @ \o <<"create_host", "register_host">>])
    ELSE s

\* if (!logical_host_) { logical_host_.reset(new LogicalHost(...)); register it }
CreateLogicalHost(s, front) ==
    IF s.logical_host_ = NoHost
    THEN PriorityUpdateCb(
           [s EXCEPT !.logical_host_ =
                         [id |-> s.hist.host_creations + 1,
                          address |-> AnyAddressFor(front),
                          health_check_address |-> AnyAddressFor(front)],
                     !.hist.host_creations = @ + 1,
                     !.hist.registrations = @ + 1,
                     !.hist.trace = @ \o <<"create_host", "register_host">>])
    ELSE s

\* logical_host_->setHealthCheckAddress(new_address)
setHealthCheckAddress(host, new_address) ==
    [host EXCEPT !.health_check_address = new_address]

\* Mutant: the comparison with the stored address is missing.
UpdateResolvedAddress_Always(s, new_address) ==
    [s EXCEPT !.current_resolved_address_ = new_address,
              !.logical_host_ = setHealthCheckAddress(@, new_address),
              !.queue = PostAll(@, AddressClosure(new_address)),
              !.hist.stored = @ \cup {new_address},
              !.hist.history = Append(@, new_address),
              !.hist.changed_at = s.update_success,
              !.hist.trace = @ \o <<"store_address", "set_health_check_address", "broadcast">>,
              !.hist.broadcasts = @ + 1]

\* Mutant: the closure captures the resolver's address, which carries no port.
UpdateResolvedAddress_NoPort(s, new_address) ==
    IF s.current_resolved_address_ = Null \/ ~(new_address = s.current_resolved_address_)
    THEN [s EXCEPT !.current_resolved_address_ = new_address,
                   !.logical_host_ = setHealthCheckAddress(@, new_address),
                   !.queue = PostAll(@, AddressClosure(getAddressWithPort(new_address, 0))),
                   !.hist.stored = @ \cup {new_address},
                   !.hist.history = Append(@, new_address),
                   !.hist.changed_at = s.update_success,
                   !.hist.trace = @ \o <<"store_address", "set_health_check_address", "broadcast">>,
                   !.hist.broadcasts = @ + 1]
    ELSE s

\* if (!current_resolved_address_ || !(*new_address == *current_resolved_address_)) {...}
UpdateResolvedAddress(s, new_address) ==
    IF s.current_resolved_address_ = Null \/ ~(new_address = s.current_resolved_address_)
    THEN [s EXCEPT !.current_resolved_address_ = new_address,
                   !.logical_host_ = setHealthCheckAddress(@, new_address),
                   !.queue = PostAll(@, AddressClosure(new_address)),
                   !.hist.stored = @ \cup {new_address},
                   !.hist.history = Append(@, new_address),
                   !.hist.changed_at = s.update_success,
                   !.hist.trace = @ \o <<"store_address", "set_health_check_address", "broadcast">>,
                   !.hist.broadcasts = @ + 1]
    ELSE s

\* Mutant: the last entry of the list is taken instead of the first.
OnAddresses_LastEntry(s, list, url) ==
    LET new_address == getAddressWithPort(list[Len(list)], portFromTcpUrl(url))
    IN  UpdateResolvedAddress(CreateLogicalHost(s, list[Len(list)]), new_address)

\* The body of if (!address_list.empty()) {...}
OnAddresses(s, list, url) ==
    LET new_address == getAddressWithPort(Head(list), portFromTcpUrl(url))
    IN  UpdateResolvedAddress(CreateLogicalHost(s, Head(list)), new_address)

\* ClusterImplBase::onPreInitComplete(): signals "initialization complete" the first
\* time only; the cluster manager then publishes the cluster's hosts to the workers.
onPreInitComplete(s) ==
    IF s.initialization_started_
    THEN [s EXCEPT !.hist.trace = Append(@, "onPreInitComplete")]
    ELSE [s EXCEPT !.initialization_started_ = TRUE,
                   !.hist.init_signals = @ + 1,
                   !.hist.trace = @ \o <<"onPreInitComplete", "signal_initialized">>,
                   !.queue = IF s.logical_host_ = NoHost THEN @ ELSE PostAll(@, HostSetUpdate)]

\* resolve_timer_->enableTimer(dns_refresh_rate_ms_)
enableTimer(s) ==
    [s EXCEPT !.timer_armed = TRUE,
              !.hist.trace = Append(@, "enable_timer")]

\* Mutant: onPreInitComplete() is called only when an address was found.
ResolveCallback_InitOnAddress(s, list, url) ==
    LET s1 == ClearQuery(s)
    IN  enableTimer(IF list # <<>> THEN onPreInitComplete(OnAddresses(s1, list, url)) ELSE s1)

\* Mutant: an empty list forgets the stored address.
ResolveCallback_EmptyClears(s, list, url) ==
    LET s1 == ClearQuery(s)
        s2 == IF list # <<>> THEN OnAddresses(s1, list, url)
              ELSE [s1 EXCEPT !.current_resolved_address_ = Null]
    IN  enableTimer(onPreInitComplete(s2))

\* Mutant: an empty list returns before the timer is armed.
ResolveCallback_EmptyReturns(s, list, url) ==
    LET s1 == ClearQuery(s)
    IN  IF list # <<>> THEN enableTimer(onPreInitComplete(OnAddresses(s1, list, url)))
        ELSE onPreInitComplete(s1)

\* Mutant: the timer is re-armed before the initialization signal.
ResolveCallback_TimerBeforeInit(s, list, url) ==
    LET s1 == ClearQuery(s)
        s2 == IF list # <<>> THEN OnAddresses(s1, list, url) ELSE s1
    IN  onPreInitComplete(enableTimer(s2))

\* Mutant: a completion is counted as a success only when it brought addresses.
ResolveCallback_CountsNonEmpty(s, list, url) ==
    LET s1 == [s EXCEPT !.active_dns_query_ = FALSE,
                        !.update_success = IF list # <<>> THEN @ + 1 ELSE @,
                        !.hist.trace = <<"clear_query", "count_success">>]
        s2 == IF list # <<>> THEN OnAddresses(s1, list, url) ELSE s1
    IN  enableTimer(onPreInitComplete(s2))

\* The lambda handed to dns_resolver_->resolve().
ResolveCallback(s, list, url) ==
    LET s1 == ClearQuery(s)
        s2 == IF list # <<>> THEN OnAddresses(s1, list, url) ELSE s1
    IN  enableTimer(onPreInitComplete(s2))

\* The resolver completes an in-flight query with list.
Complete(list) ==
    /\ resolver_pending > 0
    /\ LET s == ResolveCallback(CallbackState, list, dns_url_)
       IN  /\ \A w \in Workers : Len(s.queue[w]) <= MaxQueue
           /\ active_dns_query_' = s.active_dns_query_
           /\ update_success' = s.update_success
           /\ logical_host_' = s.logical_host_
           /\ current_resolved_address_' = s.current_resolved_address_
           /\ initialization_started_' = s.initialization_started_
           /\ timer_armed' = s.timer_armed
           /\ queue' = s.queue
           /\ hist' = s.hist
    /\ resolver_pending' = resolver_pending - 1
    /\ last_front' = IF list = <<>> THEN Null ELSE Head(list)
    /\ UNCHANGED << load_assignment_, phase, error, dns_url_, update_attempt, cache, host_visible, conn >>

(* ----------------------------- destructor ----------------------------- *)

\* ActiveDnsQuery::cancel(): the resolver drops the query and never runs its callback.
cancel(pending) == IF pending > 0 THEN pending - 1 ELSE pending

\* Mutant: the outstanding query is not cancelled.
Destructor_NoCancel ==
    /\ phase \in {"constructed", "running"}
    /\ phase' = "destroyed"
    /\ timer_armed' = FALSE
    /\ UNCHANGED << load_assignment_, error, dns_url_, active_dns_query_, resolver_pending,
                    update_attempt, update_success, logical_host_, current_resolved_address_,
                    initialization_started_, queue, cache, host_visible, conn, last_front,
                    hist >>

\* if (active_dns_query_) active_dns_query_->cancel(); then the members die, and the
\* destroyed resolve_timer_ can fire no more.
Destructor ==
    /\ phase \in {"constructed", "running"}
    /\ phase' = "destroyed"
    /\ resolver_pending' = IF active_dns_query_ THEN cancel(resolver_pending)
                           ELSE resolver_pending
    /\ timer_armed' = FALSE
    /\ UNCHANGED << load_assignment_, error, dns_url_, active_dns_query_, update_attempt, update_success,
                    logical_host_, current_resolved_address_, initialization_started_,
                    queue, cache, host_visible, conn, last_front, hist >>

(* --------------------------- worker threads --------------------------- *)

\* Mutant: the closure reads this->current_resolved_address_ when it runs, instead of
\* the new_address it captured.
Deliver_ReadsCurrent(w) ==
    /\ queue[w] # <<>>
    /\ queue' = [queue EXCEPT ![w] = Tail(@)]
    /\ LET c == Head(queue[w])
       IN  CASE c.type = "hosts" ->
                  /\ host_visible' = [host_visible EXCEPT ![w] = TRUE]
                  /\ UNCHANGED << cache, hist >>
             [] c.type = "address" ->
                  /\ cache' = [cache EXCEPT ![w] = current_resolved_address_]
                  /\ hist' = [hist EXCEPT !.writes[w] = @ + 1]
                  /\ UNCHANGED host_visible
    /\ UNCHANGED << load_assignment_, phase, error, dns_url_, active_dns_query_, resolver_pending,
                    timer_armed, update_attempt, update_success, logical_host_,
                    current_resolved_address_, initialization_started_, conn, last_front >>

\* Mutant: the description handed out by createConnection() refers to the thread's slot
\* instead of holding the address, so a later write of the slot shows through it.
Deliver_AliasedDescription(w) ==
    /\ queue[w] # <<>>
    /\ queue' = [queue EXCEPT ![w] = Tail(@)]
    /\ LET c == Head(queue[w])
       IN  CASE c.type = "hosts" ->
                  /\ host_visible' = [host_visible EXCEPT ![w] = TRUE]
                  /\ UNCHANGED << cache, hist, conn >>
             [] c.type = "address" ->
                  /\ cache' = [cache EXCEPT ![w] = c.new_address]
                  /\ hist' = [hist EXCEPT !.writes[w] = @ + 1]
                  /\ conn' = IF conn.thread = w THEN [conn EXCEPT !.address = c.new_address]
                             ELSE conn
                  /\ UNCHANGED host_visible
    /\ UNCHANGED << load_assignment_, phase, error, dns_url_, active_dns_query_, resolver_pending,
                    timer_armed, update_attempt, update_success, logical_host_,
                    current_resolved_address_, initialization_started_, last_front >>

\* Mutant: the dispatcher runs the newest posted closure first.
Deliver_NewestFirst(w) ==
    /\ queue[w] # <<>>
    /\ queue' = [queue EXCEPT ![w] = SubSeq(@, 1, Len(@) - 1)]
    /\ LET c == queue[w][Len(queue[w])]
       IN  CASE c.type = "hosts" ->
                  /\ host_visible' = [host_visible EXCEPT ![w] = TRUE]
                  /\ UNCHANGED << cache, hist >>
             [] c.type = "address" /\ phase # "destroyed" ->
                  /\ cache' = [cache EXCEPT ![w] = c.new_address]
                  /\ hist' = [hist EXCEPT !.writes[w] = @ + 1]
                  /\ UNCHANGED host_visible
             [] c.type = "address" /\ phase = "destroyed" ->
                  /\ \E v \in {cache[w], c.new_address, Garbage} :
                        cache' = [cache EXCEPT ![w] = v]
                  /\ hist' = [hist EXCEPT !.use_after_free = TRUE]
                  /\ UNCHANGED host_visible
    /\ UNCHANGED << load_assignment_, phase, error, dns_url_, active_dns_query_, resolver_pending,
                    timer_armed, update_attempt, update_success, logical_host_,
                    current_resolved_address_, initialization_started_, conn, last_front >>

\* Worker w's dispatcher runs the closure at the head of its queue.
Deliver(w) ==
    /\ queue[w] # <<>>
    /\ queue' = [queue EXCEPT ![w] = Tail(@)]
    /\ LET c == Head(queue[w])
       IN  CASE c.type = "hosts" ->
                  /\ host_visible' = [host_visible EXCEPT ![w] = TRUE]
                  /\ UNCHANGED << cache, hist >>
             [] c.type = "address" /\ phase # "destroyed" ->
                  \* data.current_resolved_address_ = new_address
                  /\ cache' = [cache EXCEPT ![w] = c.new_address]
                  /\ hist' = [hist EXCEPT !.writes[w] = @ + 1]
                  /\ UNCHANGED host_visible
             [] c.type = "address" /\ phase = "destroyed" ->
                  \* the closure's captured this dangles: tls_ is read from freed memory
                  /\ \E v \in {cache[w], c.new_address, Garbage} :
                        cache' = [cache EXCEPT ![w] = v]
                  /\ hist' = [hist EXCEPT !.use_after_free = TRUE]
                  /\ UNCHANGED host_visible
    /\ UNCHANGED << load_assignment_, phase, error, dns_url_, active_dns_query_, resolver_pending,
                    timer_armed, update_attempt, update_success, logical_host_,
                    current_resolved_address_, initialization_started_, conn, last_front >>

\* Mutant: the address is moved out of the thread's slot into the description.
createConnection_MovesAddress(w) ==
    /\ host_visible[w]
    /\ \E o \in ConnectOutcomes(cache[w]) : conn' = [thread |-> w, address |-> o]
    /\ cache' = [cache EXCEPT ![w] = Null]
    /\ UNCHANGED << load_assignment_, phase, error, dns_url_, active_dns_query_, resolver_pending,
                    timer_armed, update_attempt, update_success, logical_host_,
                    current_resolved_address_, initialization_started_, queue,
                    host_visible, last_front, hist >>

\* Mutant: an empty slot falls back to the host's own (placeholder) address.
createConnection_FallsBack(w) ==
    /\ host_visible[w]
    /\ conn' = [thread |-> w,
                address |-> IF cache[w] = Null THEN logical_host_.address ELSE cache[w]]
    /\ UNCHANGED << load_assignment_, phase, error, dns_url_, active_dns_query_, resolver_pending,
                    timer_armed, update_attempt, update_success, logical_host_,
                    current_resolved_address_, initialization_started_, queue, cache,
                    host_visible, last_front, hist >>

\* LogicalHost::createConnection() on worker w, which can pick the host once the host
\* set holding it has reached w.
createConnection(w) ==
    /\ host_visible[w]
    /\ IF phase = "destroyed"
       THEN \* parent_ dangles: parent_.tls_ is read from freed memory
            /\ \E v \in {cache[w], Garbage} : \E o \in ConnectOutcomes(v) :
                  conn' = [thread |-> w, address |-> o]
            /\ hist' = [hist EXCEPT !.use_after_free = TRUE]
       ELSE \* ASSERT(data.current_resolved_address_), then connect to it
            /\ \E o \in ConnectOutcomes(cache[w]) :
                  conn' = [thread |-> w, address |-> o]
            /\ UNCHANGED hist
    /\ UNCHANGED << load_assignment_, phase, error, dns_url_, active_dns_query_, resolver_pending,
                    timer_armed, update_attempt, update_success, logical_host_,
                    current_resolved_address_, initialization_started_, queue, cache,
                    host_visible, last_front >>

(* --------------------------- specification ---------------------------- *)

Next ==
    \/ \E has_load_assignment \in BOOLEAN : Constructor(has_load_assignment)
    \/ startPreInit
    \/ TimerFire
    \/ \E list \in AddressLists : Complete(list)
    \/ Destructor
    \/ \E w \in Workers : Deliver(w)
    \/ \E w \in Workers : createConnection(w)

Spec == Init /\ [][Next]_vars

\* The event loops keep running: an armed timer fires, the resolver answers, and
\* every dispatcher runs the closures posted to it.
Fairness ==
    /\ WF_vars(TimerFire)
    /\ WF_vars(\E list \in AddressLists : Complete(list))
    /\ \A w \in Workers : WF_vars(Deliver(w))

LiveSpec == Spec /\ Fairness

(* ------------------------ observations of a step ---------------------- *)

\* This step is a run of the completion callback (the only step that counts a success).
CompletionStep == update_success' = update_success + 1

\* This step is a call of startResolve() (the only step that counts an attempt).
StartResolveStep == update_attempt' = update_attempt + 1

\* The candidate address of the completion this step runs: first entry + configured port.
Candidate == getAddressWithPort(last_front', portFromTcpUrl(dns_url_))

\* The addresses of the broadcast closures still waiting in w's queue, oldest first.
RECURSIVE AddressesIn(_)
AddressesIn(q) ==
    IF q = <<>> THEN <<>>
    ELSE IF Head(q).type = "address"
         THEN <<Head(q).new_address>> \o AddressesIn(Tail(q))
         ELSE AddressesIn(Tail(q))

PendingAddresses(w) == AddressesIn(queue[w])

\* Every address the cluster can store: a resolvable address with a configured port.
StorableAddresses == { getAddressWithPort(a, p) : a \in ResolvedPool, p \in Ports }

Destroyed == phase = "destroyed"

(* -------------------------------- C1 ---------------------------------- *)

\* C1: at most one DNS query is outstanding in every reachable state; startResolve()
\* is never invoked while active_dns_query_ is non-null (nor while the resolver still
\* owes a callback), and the timer gets armed only with the handle cleared.
C1_AtMostOneQuery ==
    /\ [](/\ resolver_pending <= 1
          /\ resolver_pending = 1 => active_dns_query_)
    /\ [][/\ StartResolveStep => ~active_dns_query_ /\ resolver_pending = 0
          /\ (~timer_armed /\ timer_armed') => (CompletionStep /\ ~active_dns_query_')]_vars

\* A second resolve is in flight, started by the timer after the first completed.
C1_Witness == update_attempt = 2 /\ update_success = 1 /\ active_dns_query_ /\ resolver_pending = 1

(* -------------------------------- C2 ---------------------------------- *)

\* C2 (as claimed): once "initialization complete" has been signalled, no
\* createConnection() on a worker of the live cluster finds that worker's
\* current_resolved_address_ empty.
C2_NeverEmptyAfterInit ==
    (hist.init_signals > 0 /\ ~Destroyed) => conn.address \notin {AssertFailed, NullDeref}

(* -------------------------------- C3 ---------------------------------- *)

\* C3: "initialization complete" is signalled exactly once, in the first completion
\* callback: zero times before any completion, once from the first completion on.
C3_InitSignalledOnce ==
    hist.init_signals = (IF update_success >= 1 THEN 1 ELSE 0)

\* Two cycles completed, the first of them with an empty list, and one signal was sent.
C3_Witness ==
    update_success >= 2 /\ hist.init_signals = 1 /\ current_resolved_address_ = Null

(* -------------------------------- C4 ---------------------------------- *)

\* C4: a completion whose candidate (first entry + port) equals the stored address
\* issues no broadcast; one whose candidate differs (or with nothing stored) issues one
\* broadcast carrying the candidate to every worker, and, while the cluster lives, every
\* worker's cache eventually holds that value.
C4_BroadcastIffChanged ==
    /\ [][(CompletionStep /\ last_front' # Null) =>
            IF Candidate = current_resolved_address_
            THEN hist.broadcasts' = hist.broadcasts /\ queue' = queue
            ELSE /\ hist.broadcasts' = hist.broadcasts + 1
                 /\ \A w \in Workers :
                      PendingAddresses(w)' = Append(PendingAddresses(w), Candidate)]_vars
    /\ \A w \in Workers : \A a \in StorableAddresses :
         (\E i \in 1..Len(PendingAddresses(w)) : PendingAddresses(w)[i] = a)
            ~> (cache[w] = a \/ Destroyed)

\* A later cycle resolved to the stored address again: still one broadcast, delivered.
C4_Witness ==
    /\ update_success >= 2 /\ hist.broadcasts = 1 /\ last_front # Null
    /\ getAddressWithPort(last_front, portFromTcpUrl(dns_url_)) = current_resolved_address_
    /\ \A w \in Workers : cache[w] = current_resolved_address_

(* -------------------------------- C5 ---------------------------------- *)

\* C5: once the destructor has run, no completion callback executes (the resolver owes
\* none, the timer is off) and no cluster state is mutated.
C5_NoCallbackAfterTeardown ==
    /\ [](Destroyed => resolver_pending = 0 /\ ~timer_armed)
    /\ [][Destroyed =>
            /\ ~CompletionStep /\ ~StartResolveStep
            /\ UNCHANGED << current_resolved_address_, logical_host_, update_attempt,
                            update_success, timer_armed, active_dns_query_,
                            resolver_pending, initialization_started_ >>]_vars

\* Torn down in the middle of the second cycle, the query still outstanding.
C5_Witness == Destroyed /\ active_dns_query_ /\ update_attempt = 2 /\ logical_host_ # NoHost

(* -------------------------------- C6 ---------------------------------- *)

\* C6: the LogicalHost is created and registered at most once, together, in the first
\* completion with a non-empty list, never on an empty one; afterwards the object is
\* never replaced or registered again, only its health-check address changes.
C6_HostCreatedOnce ==
    /\ [](/\ hist.host_creations <= 1
          /\ hist.registrations = hist.host_creations
          /\ (logical_host_ = NoHost) <=> (hist.host_creations = 0))
    /\ [][/\ (hist.host_creations' # hist.host_creations
                \/ hist.registrations' # hist.registrations)
               => (CompletionStep /\ last_front' # Null /\ logical_host_ = NoHost)
          /\ (CompletionStep /\ last_front' # Null) => logical_host_' # NoHost
          /\ (CompletionStep /\ last_front' = Null) => logical_host_' = logical_host_
          /\ logical_host_ # NoHost =>
               /\ logical_host_'.id = logical_host_.id
               /\ logical_host_'.address = logical_host_.address]_vars

\* The one host has lived through a change of address.
C6_Witness ==
    /\ logical_host_ # NoHost /\ hist.broadcasts >= 2
    /\ logical_host_.health_check_address.version # logical_host_.address.version

(* -------------------------------- C7 ---------------------------------- *)

\* C7: a completion with an empty list counts a success and leaves the stored address,
\* the host (its health-check address), every worker's cache and every worker's queue
\* (no broadcast) unchanged.
C7_EmptyResultKeepsAddress ==
    [][(resolver_pending' < resolver_pending /\ phase' = phase /\ last_front' = Null) =>
         /\ update_success' = update_success + 1
         /\ UNCHANGED << current_resolved_address_, logical_host_, cache >>
         /\ hist.broadcasts' = hist.broadcasts
         /\ \A w \in Workers : PendingAddresses(w)' = PendingAddresses(w)]_vars

\* An empty cycle after a successful one: the old address is still on every worker.
C7_Witness ==
    /\ last_front = Null /\ update_success >= 2 /\ current_resolved_address_ # Null
    /\ \A w \in Workers : cache[w] = current_resolved_address_

(* -------------------------------- C8 ---------------------------------- *)

\* C8: every completion callback arms the refresh timer, whatever its result, and
\* (absent teardown) every completed cycle is followed by another startResolve().
C8_AlwaysReschedules ==
    /\ [][(resolver_pending' < resolver_pending /\ phase' = phase) => timer_armed']_vars
    /\ \A n \in 1..(MaxCycles - 1) :
         (update_success = n) ~> (update_attempt > n \/ Destroyed)

\* A new resolve is in flight right after a cycle that found nothing.
C8_Witness ==
    last_front = Null /\ update_success = 1 /\ update_attempt = 2 /\ active_dns_query_

(* -------------------------------- C9 ---------------------------------- *)

C10_OneBroadcastPerChange ==
    /\ [](~Destroyed =>
            \A w \in Workers :
               /\ cache[w] \in {Null} \cup hist.stored
               /\ hist.writes[w] + Len(PendingAddresses(w)) = hist.broadcasts)
    /\ [][/\ current_resolved_address_' # current_resolved_address_ =>
               /\ hist.broadcasts' = hist.broadcasts + 1
               /\ \A w \in Workers :
                    PendingAddresses(w)' =
                       Append(PendingAddresses(w), current_resolved_address_')
          /\ \A w \in Workers :
               hist.writes'[w] # hist.writes[w] =>
                  /\ hist.writes'[w] = hist.writes[w] + 1
                  /\ PendingAddresses(w) # <<>>
                  /\ cache'[w] = Head(PendingAddresses(w))
                  /\ PendingAddresses(w)' = Tail(PendingAddresses(w))]_vars

\* The address alternated over three cycles and every worker ran all three broadcasts.
C10_Witness ==
    /\ hist.broadcasts = 3 /\ ~Destroyed
    /\ \A w \in Workers : hist.writes[w] = 3 /\ cache[w] = current_resolved_address_

(* -------------------------------- C11 --------------------------------- *)

\* How many changes of the stored address worker w's cache is behind.
Lag(w) == hist.broadcasts - hist.writes[w]

\* C11 (as claimed): a worker's cache, once written, never lags the control thread's
\* ResolvedAddress by more than one refresh cycle: if it differs from the stored address,
\* that address was stored by the latest completion, less than one cycle ago.
C11_LagAtMostOneCycle ==
    ~Destroyed =>
       \A w \in Workers :
          (hist.writes[w] > 0 /\ cache[w] # current_resolved_address_)
             => update_success = hist.changed_at

\* C11 (amended): a worker's cache of the live cluster, once written, holds the address
\* of the broadcast it ran last, a value the control thread stored; it is behind the
\* stored address by exactly the broadcasts still pending for it, for however many
\* cycles they stay pending.
C11_LagIsPendingBroadcasts ==
    ~Destroyed =>
       /\ Len(hist.history) = hist.broadcasts
       /\ hist.broadcasts > 0 => current_resolved_address_ = hist.history[hist.broadcasts]
       /\ \A w \in Workers :
            /\ Lag(w) = Len(PendingAddresses(w))
            /\ hist.writes[w] > 0 => cache[w] = hist.history[hist.writes[w]]

\* A worker still holds an address that was replaced more than a whole cycle ago.
C11_Witness ==
    /\ ~Destroyed
    /\ \E w \in Workers :
         /\ hist.writes[w] > 0 /\ cache[w] # current_resolved_address_
         /\ update_success > hist.changed_at

(* -------------------------------- C12 --------------------------------- *)

\* The first entry of the latest result with the configured port.
FirstWithPort == getAddressWithPort(last_front, load_assignment_.port_value)

\* C12: first-result-wins plus the configured port: a completion with a non-empty list
\* stores (first entry, configured port) whatever else the list holds, and once that
\* cycle's broadcast has reached a worker, createConnection() there connects to it.
C12_FirstResultWins ==
    [][/\ \A list \in AddressLists :
            (list # <<>> /\ Complete(list)) =>
               current_resolved_address_' =
                  getAddressWithPort(list[1], load_assignment_.port_value)
       /\ \A w \in Workers :
            (/\ createConnection(w)
             /\ ~Destroyed /\ last_front # Null /\ PendingAddresses(w) = <<>>)
               => conn' = [thread |-> w, address |-> FirstWithPort]]_vars

\* A worker connected to the first entry of the latest result, on the configured port.
C12_Witness ==
    /\ ~Destroyed /\ last_front # Null /\ conn.thread \in Workers
    /\ PendingAddresses(conn.thread) = <<>>
    /\ conn.address = FirstWithPort /\ conn.address.port = 443

(* -------------------------------- C13 --------------------------------- *)

\* C13: the description returned by createConnection() records the address in the
\* calling thread's cache at that moment; no later cycle, setHealthCheckAddress() or
\* broadcast changes it (only another createConnection() hands out a new one).
C13_DescriptionIsSnapshot ==
    [][/\ conn' # conn => \E w \in Workers : createConnection(w)
       /\ \A w \in Workers :
            (createConnection(w) /\ ~Destroyed /\ cache[w] # Null)
               => conn' = [thread |-> w, address |-> cache[w]]]_vars

\* The description still shows the old address after its thread's cache moved on.
C13_Witness ==
    /\ ~Destroyed /\ conn.thread \in Workers /\ conn.address \in StorableAddresses
    /\ cache[conn.thread] # conn.address
    /\ logical_host_.health_check_address # conn.address

(* -------------------------------- C14 --------------------------------- *)

\* C14: createConnection() on a worker whose cache is empty aborts (the ASSERT, or with
\* ASSERT compiled out the dereference of the null address): it connects to nothing,
\* in particular not to the host's placeholder address.
C14_EmptyCacheAborts ==
    [][\A w \in Workers :
         (createConnection(w) /\ ~Destroyed /\ cache[w] = Null)
            => /\ conn'.thread = w
               /\ conn'.address \in {AssertFailed, NullDeref}
               /\ conn'.address \notin StorableAddresses \cup {logical_host_.address}]_vars

\* A createConnection() of the live cluster found its thread's cache empty.
C14_Witness ==
    /\ ~Destroyed /\ conn.thread \in Workers /\ conn.address = AssertFailed
    /\ cache[conn.thread] = Null /\ logical_host_ # NoHost

(* -------------------------------- C15 --------------------------------- *)

\* The position of a step in the latest callback's trace, 0 when it did not run.
Pos(step) ==
    IF \E i \in 1..Len(hist.trace) : hist.trace[i] = step
    THEN CHOOSE i \in 1..Len(hist.trace) : hist.trace[i] = step
    ELSE 0

\* Both steps ran => a ran before b.
Before(a, b) == (Pos(a) > 0 /\ Pos(b) > 0) => Pos(a) < Pos(b)

\* C15: within one completion callback the steps run in a fixed order: the query handle
\* is cleared first; the host is created and registered before the address is stored
\* and broadcast; the broadcast precedes the initialization signal; the timer is armed
\* last.
C15_CallbackOrder ==
    hist.trace # <<>> =>
       /\ \A i, j \in 1..Len(hist.trace) : hist.trace[i] = hist.trace[j] => i = j
       /\ Pos("clear_query") = 1
       /\ Pos("enable_timer") = Len(hist.trace)
       /\ Pos("onPreInitComplete") = Len(hist.trace) - 1
             \/ (/\ Pos("onPreInitComplete") = Len(hist.trace) - 2
                 /\ Pos("signal_initialized") = Len(hist.trace) - 1)
       /\ Before("create_host", "register_host")
       /\ Before("register_host", "store_address")
       /\ Before("store_address", "set_health_check_address")
       /\ Before("set_health_check_address", "broadcast")
       /\ Before("broadcast", "onPreInitComplete")
       /\ Pos("create_host") > 0 => Pos("broadcast") > 0
       /\ Pos("broadcast") > 0 <=> Pos("store_address") > 0

\* A callback that created the host, broadcast, signalled and armed the timer.
C15_Witness ==
    /\ Pos("create_host") > 0 /\ Pos("broadcast") > 0
    /\ Pos("signal_initialized") > 0 /\ Pos("enable_timer") > 0
    /\ timer_armed /\ ~active_dns_query_

(* -------------------------------- C16 --------------------------------- *)

\* The address of the n-th broadcast, Null before the first.
Generation(n) == IF n = 0 THEN Null ELSE hist.history[n]

\* Worker w holds the address of the last broadcast it ran, and the broadcasts it has
\* not run wait in issue order, each with the address captured when it was issued.
InIssueOrder(w) ==
    /\ hist.writes[w] <= hist.broadcasts
    /\ cache[w] = Generation(hist.writes[w])
    /\ PendingAddresses(w) = SubSeq(hist.history, hist.writes[w] + 1, hist.broadcasts)
    /\ PendingAddresses(w) = <<>> => cache[w] = current_resolved_address_

\* C16: broadcasts reach each worker in issue order, each carrying its own captured
\* address: a worker's cache only moves forward through the stored addresses, equals
\* the current ResolvedAddress when nothing is pending for it, and two workers' caches
\* differ only while a broadcast is pending on one of them.
C16_BroadcastsInOrder ==
    [][~Destroyed' =>
          /\ \A w \in Workers :
               /\ InIssueOrder(w)'
               /\ hist.writes'[w] \in {hist.writes[w], hist.writes[w] + 1}
          /\ \A w1, w2 \in Workers :
               cache'[w1] # cache'[w2] =>
                  PendingAddresses(w1)' # <<>> \/ PendingAddresses(w2)' # <<>>]_vars

\* One worker is a broadcast ahead of the other, which has two broadcasts waiting.
C16_Witness ==
    /\ ~Destroyed
    /\ \E w1, w2 \in Workers :
         /\ cache[w1] # cache[w2] /\ cache[w1] = current_resolved_address_
         /\ PendingAddresses(w1) = <<>>
         /\ Len(PendingAddresses(w2)) = 2
         /\ PendingAddresses(w2)[1] # PendingAddresses(w2)[2]

(* -------------------------------- C17 --------------------------------- *)

\* What the resolution loop owns, and every thread's cache and pending broadcasts.
LoopState ==
    << active_dns_query_, resolver_pending, timer_armed, current_resolved_address_,
       logical_host_, update_attempt, update_success, initialization_started_,
       dns_url_, cache, queue, host_visible >>

\* C17: createConnection() reads the calling thread's cache and nothing else of the
\* loop: the query handle, the timer, ResolvedAddress, the host and its health-check
\* address, the counters and every thread's cache are as before the call.
C17_ConnectionIsReadOnly ==
    [][\A w \in Workers :
         (createConnection(w) /\ ~Destroyed) =>
            /\ UNCHANGED LoopState
            /\ conn'.thread = w
            /\ conn'.address \in ConnectOutcomes(cache[w])]_vars

\* A connection was made while a query was in flight; the slot still holds the address
\* and the loop's state is that of a running cycle.
C17_Witness ==
    /\ ~Destroyed /\ conn.thread \in Workers
    /\ conn.address \in StorableAddresses /\ cache[conn.thread] = conn.address
    /\ active_dns_query_ /\ ~timer_armed /\ update_attempt = update_success + 1
    /\ logical_host_.health_check_address = current_resolved_address_

(* -------------------------------- C18 --------------------------------- *)

\* C18: after the cluster is destroyed no broadcast closure it issued runs against it:
\* a closure still queued at a worker at teardown neither writes that worker's cache
\* nor dereferences the cluster's state.
C18_NoBroadcastAfterTeardown ==
    [][\A w \in Workers :
         (/\ Destroyed /\ queue[w] # <<>> /\ Head(queue[w]).type = "address"
          /\ Deliver(w))
            => /\ cache' = cache
               /\ hist'.use_after_free = hist.use_after_free
               /\ hist'.writes = hist.writes]_vars

(* -------------------------------- C19 --------------------------------- *)

\* C19: between completion callbacks the LogicalHost exists exactly when an address is
\* stored, and then its health-check address is the stored address; the health-check
\* address is never set on a host that does not exist.
C19_HostIffAddress ==
    /\ (logical_host_ # NoHost) <=> (current_resolved_address_ # Null)
    /\ logical_host_ # NoHost =>
          /\ logical_host_.id = 1
          /\ logical_host_.health_check_address = current_resolved_address_
          /\ logical_host_.address \in {getIpv4AnyAddress, getIpv6AnyAddress}
    /\ logical_host_.id = 0 => logical_host_ = NoHost
    /\ Pos("set_health_check_address") > 0 => logical_host_ # NoHost

\* The host, created on an IPv6 first result, follows the stored address through a
\* change of address.
C19_Witness ==
    /\ logical_host_ # NoHost /\ logical_host_.address = getIpv6AnyAddress
    /\ Len(hist.history) >= 2
    /\ logical_host_.health_check_address = hist.history[Len(hist.history)]
    /\ logical_host_.health_check_address # hist.history[1]

(* -------------------------------- C20 --------------------------------- *)

\* Resolves started and not yet completed.
Outstanding == update_attempt - update_success

\* C20: before teardown attempts minus successes is 0 or 1, and 1 exactly while a
\* query is outstanding; every startResolve() adds one attempt, every completion adds
\* one success whether or not it brought addresses, and nothing else moves either.
C20_CountersTrackQuery ==
    [][/\ ~Destroyed' =>
            /\ Outstanding' \in {0, 1}
            /\ (Outstanding' = 1) <=> active_dns_query_'
       /\ (startPreInit \/ TimerFire) =>
            /\ update_attempt' = update_attempt + 1
            /\ update_success' = update_success
       /\ (\E list \in AddressLists : Complete(list)) =>
            /\ update_success' = update_success + 1
            /\ update_attempt' = update_attempt
       /\ ~(startPreInit \/ TimerFire \/ \E list \in AddressLists : Complete(list)) =>
            UNCHANGED << update_attempt, update_success >>]_vars

\* Two resolves were started and both completed, the second with an empty result.
C20_Witness ==
    /\ ~Destroyed /\ update_attempt = 2 /\ update_success = 2
    /\ last_front = Null /\ ~active_dns_query_ /\ timer_armed

=============================================================================
